---- MODULE Spec2Model ----
(***************************************************************************)
(* scripts/traefik-dns.py: one reconciliation pass that discovers the      *)
(* hostnames named in Traefik router rules (live API and *.yml files),     *)
(* keeps those containing BASE_DOMAIN and posts a CNAME creation request   *)
(* to Cloudflare for every one that the zone's record listing lacks.       *)
(*                                                                         *)
(* Strings are sequences of one-character strings, so that the regular     *)
(* expression, endswith, `in` and the slice are computed as Python         *)
(* computes them.                                                          *)
(***************************************************************************)
EXTENDS Integers, Sequences, FiniteSets, TLC

\* ------------------------------------------------------------------ bounds
\* Most rules (routers) one source holds, and most hostnames the two sources of
\* one run name in total.
MaxHosts == 2
\* Most *.yml files under the config directory.
MaxFiles == 2
\* Most predicates of a rule, and most names of one Host(...) predicate,
\* of the rules the extractor is applied to on its own.
MaxPreds == 2
MaxNames == 2

\* --------------------------------------------------------------- constants
BASE_DOMAIN == <<"r", "a", "k", "t", "a", "r", "a", ".", "c", "o", "m">>

\* A domain that is not the managed one.
OtherDomain == <<"o", ".", "c">>

\* ----------------------------------------------------------- Python strings
\* The back quote character (U+0060), which a TLA+ string cannot hold.
BackQuote == "bq"

Max(a, b) == IF a > b THEN a ELSE b

\* s.endswith(d)
EndsWith(s, d) ==
    /\ Len(s) >= Len(d)
    /\ SubSeq(s, Len(s) - Len(d) + 1, Len(s)) = d

\* d in s  (substring test)
Contains(s, d) ==
    \E i \in 0..(Len(s) - Len(d)) : SubSeq(s, i + 1, i + Len(d)) = d

\* s[:-n] for n > 0: the stop index is clamped at 0
DropLast(s, n) == SubSeq(s, 1, Max(Len(s) - n, 0))

\* s starts with lit at (1-based) position i
LitAt(s, i, lit) ==
    /\ i + Len(lit) - 1 <= Len(s)
    /\ SubSeq(s, i, i + Len(lit) - 1) = lit

\* --------------------------------------------- re.findall(r"Host\(`([^`]+)`\)")
HostOpen == <<"H", "o", "s", "t", "(", BackQuote>>
HostClose == <<BackQuote, ")">>

\* Position of the first back quote at or after i, Len(s)+1 when there is none.
RECURSIVE NextTick(_, _)
NextTick(s, i) ==
    IF i > Len(s) THEN Len(s) + 1
    ELSE IF s[i] = BackQuote THEN i
    ELSE NextTick(s, i + 1)

\* The match of the pattern starting exactly at i: [^`]+ runs to the next back
\* quote (it cannot cross one, and the pattern needs one right after it), takes
\* at least one character, and "`)" must follow.  0 when there is no match,
\* else the position of the closing parenthesis.
MatchEnd(s, i) ==
    IF ~LitAt(s, i, HostOpen) THEN 0
    ELSE LET j == i + Len(HostOpen)
             k == NextTick(s, j)
         IN  IF k > j /\ LitAt(s, k, HostClose) THEN k + 1 ELSE 0

\* The captured group of the match starting at i and ending at e.
Group(s, i, e) == SubSeq(s, i + Len(HostOpen), e - 2)

\* findall: leftmost non-overlapping matches, scanning left to right.
RECURSIVE FindFrom(_, _)
FindFrom(s, i) ==
    IF i > Len(s) THEN <<>>
    ELSE LET e == MatchEnd(s, i)
         IN  IF e = 0 THEN FindFrom(s, i + 1)
             ELSE <<Group(s, i, e)>> \o FindFrom(s, e + 1)

FindAllHosts(rule) == FindFrom(rule, 1)

\* ------------------------------------------------------------ rule texts
\* A rule is written from a sequence of predicates: a Host predicate lists one
\* or more names, a Path predicate none.
RECURSIVE JoinNames(_)
JoinNames(names) ==
    IF names = <<>> THEN <<>>
    ELSE <<BackQuote>> \o Head(names) \o <<BackQuote>>
         \o (IF Len(names) > 1 THEN <<",">> ELSE <<>>)
         \o JoinNames(Tail(names))

PredText(p) ==
    IF p.kind = "Host" THEN <<"H", "o", "s", "t", "(">> \o JoinNames(p.names) \o <<")">>
    ELSE <<"P", "a", "t", "h", "(", BackQuote, "/", "x", BackQuote, ")">>

RECURSIVE RuleText(_)
RuleText(preds) ==
    IF preds = <<>> THEN <<>>
    ELSE PredText(Head(preds))
         \o (IF Len(preds) > 1 THEN <<" ", "&", "&", " ">> ELSE <<>>)
         \o RuleText(Tail(preds))

\* The names a rule's Host predicates list, in order.
RECURSIVE NamedHosts(_)
NamedHosts(preds) ==
    IF preds = <<>> THEN <<>>
    ELSE (IF Head(preds).kind = "Host" THEN Head(preds).names ELSE <<>>)
         \o NamedHosts(Tail(preds))

HostPred(names) == [kind |-> "Host", names |-> names]
PathPred == [kind |-> "Path", names |-> <<>>]

\* ------------------------------------------------------------------ inputs
\* What stands before the base domain in the hostnames the sources name:
\* nothing (the apex), a label and its dot, and letters with no dot.
Prefixes == {<<>>, <<"a", ".">>, <<"a">>, <<"a", "a">>}

\* The hostnames the sources name: the base domain after each prefix, the base
\* domain as the start of a longer name, and a name of another domain.
HostPool ==
    {p \o BASE_DOMAIN : p \in Prefixes}
        \cup {BASE_DOMAIN \o <<".", "a">>, <<"a", ".">> \o OtherDomain}

SvcHost == <<"a", ".">> \o BASE_DOMAIN

\* The rule texts of the routers: no rule (the empty text), one Host predicate,
\* a Host predicate and a Path predicate, a Host predicate of two names.
RulePool ==
    {<<>>}
        \cup {RuleText(<<HostPred(<<h>>)>>) : h \in HostPool}
        \cup {RuleText(<<HostPred(<<SvcHost>>), PathPred>>),
              RuleText(<<HostPred(<<SvcHost, BASE_DOMAIN>>)>>)}

RuleSeqs(b) == UNION {[1..k -> RulePool] : k \in 0..b}

\* A config file: unparsable, without the http key, with routers (rules are
\* those of its routers), or with routers the last of which is of a shape that
\* raises (rules are those of the routers before it).
FilePool ==
    {[kind |-> "unparsable", rules |-> <<>>], [kind |-> "nohttp", rules |-> <<>>]}
        \cup {[kind |-> k, rules |-> rs] :
                 k \in {"ok", "badrouter"}, rs \in RuleSeqs(MaxHosts)}

\* The rules the extractor is applied to on its own.
NamePool == {<<"a", ".", "c">>, <<"b", ".", "c">>}
PredPool ==
    {PathPred} \cup {HostPred(ns) : ns \in UNION {[1..k -> NamePool] : k \in 1..MaxNames}}
RuleStructs == UNION {[1..k -> PredPool] : k \in 0..MaxPreds}

\* The record names the zone may hold before the first run.
ZonePool == {BASE_DOMAIN, SvcHost}

\* ------------------------------------------------------------------- state
VARIABLES
    pc,                 \* where main() is
    run,                \* 1 in the first run of main(), 2 in the second
    hosts_from_api,     \* main: hosts_from_api
    hosts_from_config,  \* main: hosts_from_config
    all_hosts,          \* main: all_hosts, a list in no particular order
    domain_hosts,       \* main: domain_hosts
    existing_records,   \* main: existing_records
    todo,               \* the hosts the for loop has not reached
    host,               \* the loop variable
    zone,               \* the record names the provider holds
    errors,             \* logger.error lines of this run, by call site
    requests,           \* the POSTs of this run, in order
    state,              \* per hostname: Discovered, Skipped, Filtered, Created, ...
    unpaced,            \* a POST was sent and time.sleep has not run since
    first,              \* what the first run read and did
    ex_rule,            \* the rule the extractor is applied to
    ex_hosts            \* what it returned

vars ==
    <<pc, run, hosts_from_api, hosts_from_config, all_hosts, domain_hosts,
      existing_records, todo, host, zone, errors, requests, state, unpaced,
      first, ex_rule, ex_hosts>>

Range(s) == {s[i] : i \in 1..Len(s)}

NoErrors == [api |-> 0, parse |-> 0, dns |-> 0, create |-> 0]
NoFirst == [hosts |-> {}, existing |-> {}, created |-> {}, failed |-> 0]

\* ------------------------------------------------------------ the readers
\* lines 35-39: every router's rule through the pattern, results concatenated
RECURSIVE RouterHosts(_)
RouterHosts(rules) ==
    IF rules = <<>> THEN <<>>
    ELSE FindAllHosts(Head(rules)) \o RouterHosts(Tail(rules))

\* lines 53-64: what one file adds to hosts; a file that raises has added what
\* was extracted from it before
FileHosts(file) ==
    IF file.kind \in {"ok", "badrouter"} THEN RouterHosts(file.rules) ELSE <<>>

\* lines 65-66: one logger.error for a file that raised
FileErrors(file) == IF file.kind \in {"unparsable", "badrouter"} THEN 1 ELSE 0

\* What the live API can answer: the hosts of every list of routers.
ApiReads == {RouterHosts(routers) : routers \in RuleSeqs(MaxHosts)}

\* What reading one file can give: the hosts it adds and the errors it logs.
FileReads == {[hosts |-> FileHosts(f), errors |-> FileErrors(f)] : f \in FilePool}

\* lines 48-68: what reading a directory of at most n files can give, the files
\* read one after the other, each extending hosts, a failed one not stopping
\* the next (directories that name more than MaxHosts hosts are left out)
RECURSIVE DirReads(_)
DirReads(n) ==
    IF n = 0 THEN {[hosts |-> <<>>, errors |-> 0]}
    ELSE LET rest == DirReads(n - 1)
         IN  rest \cup
             {[hosts |-> r[1].hosts \o r[2].hosts, errors |-> r[1].errors + r[2].errors] :
                 r \in {q \in FileReads \X rest :
                           Len(q[1].hosts) + Len(q[2].hosts) <= MaxHosts}}

ConfigReads == DirReads(MaxFiles)

\* In the second run the sources name the hostnames they named in the first:
\* the live API names none but those, in few enough rules for the files to name
\* the rest, and the files make the set complete.
SameApi(hosts) ==
    \/ run = 1
    \/ /\ Range(hosts) \subseteq first.hosts
       /\ Len(hosts) + Cardinality(first.hosts \ Range(hosts)) <= MaxHosts

SameSources(hosts) == run = 1 \/ Range(hosts) = first.hosts

\* -------------------------------------------------------- create_dns_record
\* Subdomain without the stripping of the base domain.
SubdomainWhole(hostname) == hostname

\* lines 99-102: the subdomain part of a hostname
Subdomain(hostname) ==
    IF EndsWith(hostname, BASE_DOMAIN)
    THEN DropLast(hostname, Len(BASE_DOMAIN) + 1)
    ELSE hostname

\* lines 105-106: no request for the empty label
ShouldSend(subdomain) == subdomain # <<>>

\* lines 113-119: the body of the request (host is kept for the log line)
Request(hostname, ok) ==
    [host |-> hostname, type |-> "CNAME", name |-> Subdomain(hostname),
     content |-> BASE_DOMAIN, ok |-> ok]

\* lines 128-133: one logger.error for a non-200 status and one for an exception
CreateErrors(n, outcome) == IF outcome = "ok" THEN n ELSE n + 1

\* PcAfterCreate when time.sleep is reached only if the request raised nothing.
PcSkipsSleepOnError(outcome) == IF outcome = "exc" THEN "loop" ELSE "sleep"

\* PcAfterCreate when an exception of the request leaves main().
PcRaises(outcome) == IF outcome = "exc" THEN "raised" ELSE "sleep"

\* lines 155-157: create_dns_record returns whatever happened in it, and
\* time.sleep(1) follows
PcAfterCreate(outcome) == "sleep"

\* NeedsRecord when the existing records are not looked at.
NeedsRecordAlways(h, existing) == TRUE

\* NeedsRecord when a failed creation ends the creations of the run.
NeedsRecordUntilFailure(h, existing) == h \notin existing /\ errors.create = 0

\* line 153
NeedsRecord(h, existing) == h \notin existing

\* The name under which the provider lists the record created for the request
\* name n: the provider qualifies a relative name with the zone's name.
ProviderName(n) == n \o <<".">> \o BASE_DOMAIN

\* --------------------------------------------------------------------- Init
Locals ==
    /\ hosts_from_api = <<>>
    /\ hosts_from_config = <<>>
    /\ all_hosts = {}
    /\ domain_hosts = {}
    /\ existing_records = {}
    /\ todo = {}
    /\ host = <<>>
    /\ errors = NoErrors
    /\ requests = <<>>
    /\ state = <<>>
    /\ unpaced = FALSE

Init ==
    /\ pc = "start"
    /\ run = 1
    /\ Locals
    /\ zone \in SUBSET ZonePool
    /\ first = NoFirst
    /\ ex_rule = <<>>
    /\ ex_hosts = <<>>

\* ------------------------------------------------- get_hosts_from_traefik_api
ApiDone(hosts, failed) ==
    /\ pc = "start"
    /\ SameApi(hosts)
    /\ hosts_from_api' = hosts
    /\ errors' = [errors EXCEPT !.api = @ + failed]
    /\ pc' = "config"
    /\ UNCHANGED <<run, hosts_from_config, all_hosts, domain_hosts, existing_records,
                   todo, host, zone, requests, state, unpaced, first, ex_rule, ex_hosts>>

\* status 200 and a list of routers
ApiOk == \E hosts \in ApiReads : ApiDone(hosts, 0)

\* lines 30-32: another status
ApiStatus == ApiDone(<<>>, 1)

\* lines 42-44: the request, response.json() or a router of another shape raises
ApiException == ApiDone(<<>>, 1)

GetHostsFromTraefikApi == ApiOk \/ ApiStatus \/ ApiException

\* ------------------------------------------------ get_hosts_from_config_files
GetHostsFromConfigFiles ==
    /\ pc = "config"
    /\ \E read \in ConfigReads :
          /\ Len(hosts_from_api) + Len(read.hosts) <= MaxHosts
          /\ SameSources(hosts_from_api \o read.hosts)
          /\ hosts_from_config' = read.hosts
          /\ errors' = [errors EXCEPT !.parse = @ + read.errors]
    /\ pc' = "aggregate"
    /\ UNCHANGED <<run, hosts_from_api, all_hosts, domain_hosts, existing_records,
                   todo, host, zone, requests, state, unpaced, first, ex_rule, ex_hosts>>

\* ------------------------------------------------------------ main, 140-145
\* Nothing after line 140 reads hosts_from_api and hosts_from_config: the state
\* drops the two lists here.
Aggregate ==
    /\ pc = "aggregate"
    /\ all_hosts' = Range(hosts_from_api \o hosts_from_config)
    /\ hosts_from_api' = <<>>
    /\ hosts_from_config' = <<>>
    /\ domain_hosts' = {h \in all_hosts' : Contains(h, BASE_DOMAIN)}
    /\ todo' = domain_hosts'
    /\ state' = [h \in domain_hosts' |-> "Discovered"]
    /\ pc' = "existing"
    /\ UNCHANGED <<run, existing_records, host, zone, errors, requests, unpaced,
                   first, ex_rule, ex_hosts>>

\* --------------------------------------------------- get_existing_dns_records
ListDone(records, failed) ==
    /\ pc = "existing"
    /\ existing_records' = records
    /\ errors' = [errors EXCEPT !.dns = @ + failed]
    /\ pc' = "loop"
    /\ UNCHANGED <<run, hosts_from_api, hosts_from_config, all_hosts, domain_hosts,
                   todo, host, zone, requests, state, unpaced, first, ex_rule, ex_hosts>>

ListOk == ListDone(zone, 0)

\* lines 83-85
ListStatus == ListDone({}, 1)

\* lines 92-94
ListException == ListDone({}, 1)

GetExistingDnsRecords == ListOk \/ ListStatus \/ ListException

\* ------------------------------------------------------------ main, 152-159
\* the loop reaches a host that has no record
LoopCreate ==
    /\ pc = "loop"
    /\ \E h \in todo :
          /\ NeedsRecord(h, existing_records)
          /\ host' = h
          /\ todo' = todo \ {h}
    /\ pc' = "create"
    /\ UNCHANGED <<run, hosts_from_api, hosts_from_config, all_hosts, domain_hosts,
                   existing_records, zone, errors, requests, state, unpaced, first,
                   ex_rule, ex_hosts>>

\* the loop reaches a host that has one
LoopSkip ==
    /\ pc = "loop"
    /\ \E h \in todo :
          /\ ~NeedsRecord(h, existing_records)
          /\ host' = h
          /\ todo' = todo \ {h}
          /\ state' = [state EXCEPT ![h] = "Skipped"]
    /\ UNCHANGED <<pc, run, hosts_from_api, hosts_from_config, all_hosts, domain_hosts,
                   existing_records, zone, errors, requests, unpaced, first,
                   ex_rule, ex_hosts>>

LoopExit ==
    /\ pc = "loop"
    /\ todo = {}
    /\ pc' = "done"
    /\ UNCHANGED <<run, hosts_from_api, hosts_from_config, all_hosts, domain_hosts,
                   existing_records, todo, host, zone, errors, requests, state,
                   unpaced, first, ex_rule, ex_hosts>>

\* ------------------------------------------------------------ create_dns_record
\* lines 105-106
CreateNothing ==
    /\ pc = "create"
    /\ ~ShouldSend(Subdomain(host))
    /\ state' = [state EXCEPT ![host] = "Filtered"]
    /\ pc' = PcAfterCreate("none")
    /\ UNCHANGED <<run, hosts_from_api, hosts_from_config, all_hosts, domain_hosts,
                   existing_records, todo, host, zone, errors, requests, unpaced,
                   first, ex_rule, ex_hosts>>

Post(outcome) ==
    /\ pc = "create"
    /\ ShouldSend(Subdomain(host))
    /\ requests' = Append(requests, Request(host, outcome = "ok"))
    /\ zone' = IF outcome = "ok" THEN zone \cup {ProviderName(Subdomain(host))} ELSE zone
    /\ errors' = [errors EXCEPT !.create = CreateErrors(@, outcome)]
    /\ state' = [state EXCEPT ![host] = IF outcome = "ok" THEN "Created"
                                        ELSE "CreationFailed"]
    /\ unpaced' = TRUE
    /\ pc' = PcAfterCreate(outcome)
    /\ UNCHANGED <<run, hosts_from_api, hosts_from_config, all_hosts, domain_hosts,
                   existing_records, todo, host, first, ex_rule, ex_hosts>>

\* lines 128-129
PostOk == Post("ok")

\* lines 130-131
PostStatus == Post("status")

\* lines 132-133
PostException == Post("exc")

CreateDnsRecord == CreateNothing \/ PostOk \/ PostStatus \/ PostException

\* line 157
Sleep ==
    /\ pc = "sleep"
    /\ unpaced' = FALSE
    /\ pc' = "loop"
    /\ UNCHANGED <<run, hosts_from_api, hosts_from_config, all_hosts, domain_hosts,
                   existing_records, todo, host, zone, errors, requests, state,
                   first, ex_rule, ex_hosts>>

\* ------------------------------------------------------------ specifications
Next ==
    \/ GetHostsFromTraefikApi
    \/ GetHostsFromConfigFiles
    \/ Aggregate
    \/ GetExistingDnsRecords
    \/ LoopCreate
    \/ LoopSkip
    \/ LoopExit
    \/ CreateDnsRecord
    \/ Sleep

Spec == Init /\ [][Next]_vars

\* main() is straight-line code: a step that can be taken is taken.
FairSpec == Spec /\ WF_vars(Next)

\* The scheduler starts main() again; the sources are as they were and the
\* provider holds what the first run created.
Rerun ==
    /\ pc = "done"
    /\ run = 1
    /\ run' = 2
    /\ first' = [hosts |-> all_hosts,
                 existing |-> existing_records,
                 created |-> {ProviderName(requests[i].name) :
                                 i \in {j \in 1..Len(requests) : requests[j].ok}},
                 failed |-> errors.create]
    /\ pc' = "start"
    /\ all_hosts' = {}
    /\ domain_hosts' = {}
    /\ existing_records' = {}
    /\ todo' = {}
    /\ host' = <<>>
    /\ errors' = NoErrors
    /\ requests' = <<>>
    /\ state' = <<>>
    /\ UNCHANGED <<hosts_from_api, hosts_from_config, zone, unpaced, ex_rule, ex_hosts>>

NextTwice == Next \/ Rerun

SpecTwice == Init /\ [][NextTwice]_vars

\* The extractor on its own: one rule in, the list of hosts out.
InitExtract ==
    /\ pc = "rule"
    /\ run = 1
    /\ Locals
    /\ zone = {}
    /\ first = NoFirst
    /\ ex_rule \in RuleStructs
    /\ ex_hosts = <<>>

Extract ==
    /\ pc = "rule"
    /\ ex_hosts' = FindAllHosts(RuleText(ex_rule))
    /\ pc' = "extracted"
    /\ UNCHANGED <<run, hosts_from_api, hosts_from_config, all_hosts, domain_hosts,
                   existing_records, todo, host, zone, errors, requests, state,
                   unpaced, first, ex_rule>>

SpecExtract == InitExtract /\ [][Extract]_vars

\* ------------------------------------------------------------------ claims
Attempts(h) == Cardinality({i \in 1..Len(requests) : requests[i].host = h})
FailedAttempts == Cardinality({i \in 1..Len(requests) : ~requests[i].ok})
Terminal == {"Skipped", "Filtered", "Created", "CreationFailed"}
AllTerminal == \A h \in domain_hosts : state[h] \in Terminal

\* C1: when main() runs twice with the same discovered hostnames, every creation
\* request of the first run succeeded, and the second run's record listing holds
\* what the first run's listing held and the name of every record the first run
\* created, the second run issues no creation request.
C1_Convergence ==
    (/\ run = 2
     /\ pc = "done"
     /\ first.failed = 0
     /\ (first.existing \cup first.created) \subseteq existing_records)
        => requests = <<>>

\* C2: a hostname that is in the existing-record set is skipped and no request is
\* sent for it; when the existing-record set equals the desired set, the run
\* sends no creation request at all.
C2_Idempotence ==
    /\ \A i \in 1..Len(requests) : requests[i].host \notin existing_records
    /\ \A h \in domain_hosts \cap existing_records : state[h] \in {"Discovered", "Skipped"}
    /\ (pc \in {"loop", "create", "sleep", "done"} /\ existing_records = domain_hosts)
          => requests = <<>>

C2_Witness ==
    /\ pc = "done"
    /\ domain_hosts # {}
    /\ existing_records = domain_hosts
    /\ \A h \in domain_hosts : state[h] = "Skipped"
    /\ requests = <<>>

\* C3: when the run is over, every desired hostname that is missing from the
\* existing set and has a non-empty subdomain label has had exactly one
\* creation request, whatever became of the other requests, and as many
\* creation failures are logged as requests failed.
C3_FailureIsolation ==
    pc = "done" =>
        /\ \A h \in domain_hosts :
              (h \notin existing_records /\ Subdomain(h) # <<>>) => Attempts(h) = 1
        /\ errors.create = FailedAttempts

C3_Witness ==
    /\ pc = "done"
    /\ Len(requests) = 2
    /\ ~requests[1].ok
    /\ requests[2].ok
    /\ errors.create = 1

\* C4: the hostname that is the base domain itself never gets a creation
\* request: create_dns_record derives the empty label and returns.
C4_ApexExclusion ==
    /\ \A i \in 1..Len(requests) : requests[i].host # BASE_DOMAIN
    /\ BASE_DOMAIN \in domain_hosts =>
          state[BASE_DOMAIN] \in {"Discovered", "Skipped", "Filtered"}

C4_Witness ==
    /\ pc = "done"
    /\ BASE_DOMAIN \in domain_hosts
    /\ BASE_DOMAIN \notin existing_records
    /\ state[BASE_DOMAIN] = "Filtered"

\* C5: a hostname that passed the domain filter gets the empty label, and so no
\* request, only when it is the base domain itself.
C5_EmptyLabelOnlyApex ==
    \A h \in domain_hosts : state[h] = "Filtered" => h = BASE_DOMAIN

\* C6: the extractor returns, in order, every name listed in the Host predicates
\* of the rule, those of a predicate of several names included, and the empty
\* sequence for a rule with no Host predicate.
C6_Extraction == pc = "extracted" => ex_hosts = NamedHosts(ex_rule)

\* C7: once a creation request is sent, time.sleep runs before the next
\* hostname is taken and before the next request is sent.
C7_Pacing ==
    [][(todo' # todo \/ Len(requests') > Len(requests)) => ~unpaced]_vars

C7_Witness ==
    /\ pc = "loop"
    /\ todo = {}
    /\ ~unpaced
    /\ Len(requests) = 2
    /\ ~requests[2].ok

\* C8: whatever fails, the run reaches its end with every desired hostname
\* skipped, filtered, created or failed.
C8_Completes == <>(pc = "done" /\ AllTerminal)

C8_Witness ==
    /\ pc = "done"
    /\ errors.api = 1
    /\ errors.parse >= 1
    /\ errors.dns = 1
    /\ errors.create >= 1
    /\ Cardinality(domain_hosts) = 2
    /\ AllTerminal

\* C9: the name field of every creation request is the hostname without the base
\* domain and its dot (name, a dot and the base domain give the hostname back),
\* and its content field is the base domain.
C9_SubdomainDerivation ==
    \A i \in 1..Len(requests) :
        /\ requests[i].name \o <<".">> \o BASE_DOMAIN = requests[i].host
        /\ requests[i].content = BASE_DOMAIN

\* C10: no two creation requests of one run carry the same record name.
C10_DistinctNames ==
    \A i, j \in 1..Len(requests) :
        i # j => requests[i].name # requests[j].name

====
